---- MODULE Spec2Model ----
(***************************************************************************)
(* Model of the stream-analytics scripts: src/src/tcp_analyzers.py         *)
(* (LBNLAnalyzer) and src/src/vfdt.py (VFDTClassifier).                    *)
(*                                                                         *)
(* The module is used in one of two ways, chosen in Init:                  *)
(*   pc = "import" : a caller imports the classes and calls one public     *)
(*                   method after another with inputs of its choice;       *)
(*   pc = "main"   : tcp_analyzers.py runs as a script (__main__).         *)
(*                                                                         *)
(* Values.  A DataFrame is [kind |-> "DataFrame", rows |-> <<row, ...>>],  *)
(* a row being a record whose fields are the columns (timestamp, packets,  *)
(* bytes, traffic_class, vfdt_class); a missing bytes cell is a row        *)
(* without the bytes field.  Python's None is the record None.  A numpy    *)
(* array is [kind |-> "ndarray", rows |-> <<v, ...>>].  A missing           *)
(* categorical cell (NaN) is the string NaN.  float('inf') is Inf.         *)
(***************************************************************************)
EXTENDS Integers, Sequences, FiniteSets, TLC

VARIABLES
    pc,        \* "import" | "called" | "main" | "fetched" | "returned" | "exit"
    op,        \* name of the last public method called ("" before any call)
    arg0,      \* the argument of the last call, as it was when the call began
    arg,       \* the same argument object when the call ended
    ret,       \* the value the last call returned (None when it raised)
    raised,    \* the exception that escaped the last call ("" when none)
    printed,   \* number of "Error parsing line" messages the last call printed
    ranges,    \* VFDTClassifier.self.ranges
    stdout,    \* result.stdout of the command fetch_tcp_data ran last
    df,        \* analyze_tcp_traffic's local df
    stages,    \* the stages analyze_tcp_traffic completed, in order
    results,   \* __main__'s results
    message    \* what __main__ printed last

vars == <<pc, op, arg0, arg, ret, raised, printed, ranges, stdout, df, stages,
          results, message>>

----------------------------------------------------------------------------
(* Bounds of the model *)

\* longest DataFrame a caller passes to classify_traffic / detect_anomalies /
\* calculate_statistics
MaxRecords == 3

\* longest array a caller passes to VFDTClassifier.classify
MaxData == 2

\* most lines in a text handed to parse_rwcount_output or produced by the
\* external command
MaxLines == 3

----------------------------------------------------------------------------
(* Python values *)

None == [kind |-> "None", rows |-> <<>>]

NaN == "NaN"

\* float('inf'): larger than every packet count of the model
Inf == 2147483647

DataFrame(rs) == [kind |-> "DataFrame", rows |-> rs]

ndarray(vs) == [kind |-> "ndarray", rows |-> vs]

\* the sequences over S of length lo..hi
SeqsOf(S, lo, hi) == UNION {[1..n -> S] : n \in lo..hi}

\* the packets column of a sequence of rows
Packets(rs) == [i \in 1..Len(rs) |-> rs[i].packets]

\* numpy.searchsorted(b, x, side='left'): how many elements of the sorted b
\* are smaller than x
SearchSortedLeft(b, x) == Cardinality({i \in 1..Len(b) : b[i] < x})

\* ascending insertion of x into the sorted sequence s
RECURSIVE Insert(_, _)
Insert(x, s) ==
    IF s = <<>> THEN <<x>>
    ELSE IF x < Head(s) THEN <<x>> \o s
    ELSE <<Head(s)>> \o Insert(x, Tail(s))

\* the values of s in ascending order
RECURSIVE SortValues(_)
SortValues(s) ==
    IF s = <<>> THEN <<>> ELSE Insert(Head(s), SortValues(Tail(s)))

RECURSIVE SumSeq(_)
SumSeq(s) == IF s = <<>> THEN 0 ELSE Head(s) + SumSeq(Tail(s))

----------------------------------------------------------------------------
(* LBNLAnalyzer.__init__ *)

\* self.config['anomaly_threshold']
anomaly_threshold == 1000

----------------------------------------------------------------------------
(* LBNLAnalyzer.classify_traffic *)

\* the local table ranges
TrafficRanges == << <<0, 600>>, <<601, 6000>>, <<6001, 60000>>, <<60001, Inf>> >>

\* bins=[r[0] for r in ranges] + [float('inf')]
bins == [i \in 1..(Len(TrafficRanges) + 1) |->
            IF i <= Len(TrafficRanges) THEN TrafficRanges[i][1] ELSE Inf]

\* labels=['Low', 'Medium', 'High', 'Very High']
labels == <<"Low", "Medium", "High", "Very High">>

\* pandas.cut(x, bins=b, labels=labs) with its defaults right=True,
\* include_lowest=False: the intervals are (b[i], b[i+1]], and a value in none
\* of them (x <= b[1] or x > b[last]) is NaN
Cut(x, b, labs) ==
    LET id == SearchSortedLeft(b, x)
    IN  IF id = 0 \/ id = Len(b) THEN NaN ELSE labs[id]

\* 4 * (the k/4 quantile of the sorted values s), linear interpolation between
\* the two nearest order statistics (pandas Series.quantile); the factor 4
\* keeps the interpolated value an integer
Quantile4(s, k) ==
    LET pos4 == (Len(s) - 1) * k
        lo   == pos4 \div 4
        fr   == pos4 % 4
    IN  IF fr = 0 THEN 4 * s[lo + 1]
        ELSE 4 * s[lo + 1] + fr * (s[lo + 2] - s[lo + 1])

\* the five bin edges pandas.qcut(x, q=4) computes, times 4
QuantileBins4(xs) == LET s == SortValues(xs) IN [k \in 1..5 |-> Quantile4(s, k - 1)]

\* pandas.qcut raises ValueError("Bin edges must be unique") when two of the
\* edges are equal (duplicates='raise' is the default)
QcutRaises(xs) == \E i, j \in 1..5 : i < j /\ QuantileBins4(xs)[i] = QuantileBins4(xs)[j]

\* labels=['Q1', 'Q2', 'Q3', 'Q4']
qlabels == <<"Q1", "Q2", "Q3", "Q4">>

\* the bucket pandas.qcut gives x when the edges are unique: intervals
\* (e[i], e[i+1]], the lowest edge included in the first (include_lowest=True)
Qcut(x, xs) ==
    LET b4 == QuantileBins4(xs)
        id == IF 4 * x = b4[1] THEN 1 ELSE SearchSortedLeft(b4, 4 * x)
    IN  IF id = 0 \/ id = Len(b4) THEN NaN ELSE qlabels[id]

\* row r with the column c set to v
WithColumn(r, c, v) == [f \in DOMAIN r \cup {c} |-> IF f = c THEN v ELSE r[f]]

\* classify_traffic(df): the argument object afterwards (obj), the returned
\* value (ret) and the exception that escaped (raised).  The columns are
\* assigned on the caller's DataFrame itself, traffic_class (line 147) before
\* vfdt_class (line 151), and the same object is returned.
classify_traffic(d) ==
    IF d = None
    THEN [obj |-> d, ret |-> None, raised |-> "TypeError"]
    ELSE LET xs  == Packets(d.rows)
             cut == [i \in 1..Len(d.rows) |->
                        WithColumn(d.rows[i], "traffic_class", Cut(xs[i], bins, labels))]
         IN  IF QcutRaises(xs)
             THEN [obj |-> DataFrame(cut), ret |-> None, raised |-> "ValueError"]
             ELSE LET both == [i \in 1..Len(cut) |->
                                  WithColumn(cut[i], "vfdt_class", Qcut(xs[i], xs))]
                  IN  [obj |-> DataFrame(both), ret |-> DataFrame(both), raised |-> ""]

----------------------------------------------------------------------------
(* LBNLAnalyzer.detect_anomalies *)

\* detect_anomalies comparing with >= instead of >
detect_anomalies_ge(d) ==
    IF d = None
    THEN [obj |-> d, ret |-> None, raised |-> "TypeError"]
    ELSE LET minute_threshold == anomaly_threshold * 60
             anomalies == SelectSeq(d.rows, LAMBDA r : r.packets >= minute_threshold)
         IN  [obj |-> d, ret |-> DataFrame(anomalies), raised |-> ""]

\* detect_anomalies comparing with anomaly_threshold itself
detect_anomalies_unscaled(d) ==
    IF d = None
    THEN [obj |-> d, ret |-> None, raised |-> "TypeError"]
    ELSE LET anomalies == SelectSeq(d.rows, LAMBDA r : r.packets > anomaly_threshold)
         IN  [obj |-> d, ret |-> DataFrame(anomalies), raised |-> ""]

\* detect_anomalies(df): the rows whose packets exceed anomaly_threshold * 60,
\* copied into a new DataFrame; df itself is left alone
detect_anomalies(d) ==
    IF d = None
    THEN [obj |-> d, ret |-> None, raised |-> "TypeError"]
    ELSE LET minute_threshold == anomaly_threshold * 60
             anomalies == SelectSeq(d.rows, LAMBDA r : r.packets > minute_threshold)
         IN  [obj |-> d, ret |-> DataFrame(anomalies), raised |-> ""]

----------------------------------------------------------------------------
(* LBNLAnalyzer.calculate_statistics *)

Max(S) == CHOOSE x \in S : \A y \in S : y <= x

Min(S) == CHOOSE x \in S : \A y \in S : x <= y

\* calculate_statistics(df): df['packets'] on None raises TypeError.  The mean
\* is kept as the fraction <<sum, count>>; std_dev_packets (a real number) is
\* not represented.
calculate_statistics(d) ==
    IF d = None
    THEN [obj |-> d, ret |-> None, raised |-> "TypeError"]
    ELSE LET xs == Packets(d.rows)
             withBytes == SelectSeq(d.rows, LAMBDA r : "bytes" \in DOMAIN r)
             stats == [kind |-> "dict",
                       total_packets |-> SumSeq(xs),
                       total_bytes |-> SumSeq([i \in 1..Len(withBytes) |-> withBytes[i].bytes]),
                       avg_packets_per_min |-> <<SumSeq(xs), Len(xs)>>,
                       max_packets_per_min |-> Max({xs[i] : i \in 1..Len(xs)}),
                       min_packets_per_min |-> Min({xs[i] : i \in 1..Len(xs)}),
                       total_minutes |-> Len(xs)]
         IN  [obj |-> d, ret |-> stats, raised |-> ""]

----------------------------------------------------------------------------
(* LBNLAnalyzer.parse_rwcount_output *)

(* A text is a sequence of lines (output.split('\n')).  A line is the        *)
(* sequence of its '|'-separated, stripped fields; the empty line is <<>>    *)
(* and a line that starts with '#' has a first field of kind "hash".  A      *)
(* field is [k, v]: a timestamp ("ts", v the instant), a decimal number      *)
(* ("num", v the number in tenths: "5" is 50 and "2.7" is 27) or text that   *)
(* is neither ("junk").                                                      *)
Field(k, v) == [k |-> k, v |-> v]

\* line.startswith('#')
StartsWithHash(line) == line # <<>> /\ line[1].k = "hash"

\* pd.to_datetime(text) raises on text that is no timestamp
ToDatetimeRaises(f) == f.k # "ts"

\* float(text) raises ValueError on text that is no number
FloatRaises(f) == f.k # "num"

\* int(float(text)): the number truncated toward zero
IntOfFloat(f) == IF f.v >= 0 THEN f.v \div 10 ELSE -((-f.v) \div 10)

\* the body of the try block for one line: the record appended (rec, with
\* made = TRUE) or the exception caught (caught = TRUE); a line with fewer
\* than two fields appends nothing and raises nothing
ParseLine(parts) ==
    IF Len(parts) < 2
    THEN [made |-> FALSE, caught |-> FALSE, rec |-> <<>>]
    ELSE IF ToDatetimeRaises(parts[1]) \/ FloatRaises(parts[2])
            \/ (Len(parts) > 2 /\ FloatRaises(parts[3]))
    THEN [made |-> FALSE, caught |-> TRUE, rec |-> <<>>]
    ELSE LET record == [timestamp |-> parts[1].v, packets |-> IntOfFloat(parts[2])]
         IN  [made |-> TRUE, caught |-> FALSE,
              rec |-> IF Len(parts) > 2
                      THEN WithColumn(record, "bytes", IntOfFloat(parts[3]))
                      ELSE record]

\* the loop over the lines: the records appended and the messages printed
RECURSIVE ParseLines(_)
ParseLines(lines) ==
    IF lines = <<>> THEN [records |-> <<>>, printed |-> 0]
    ELSE LET line == Head(lines)
             rest == ParseLines(Tail(lines))
         IN  IF line = <<>> \/ StartsWithHash(line) THEN rest
             ELSE LET p == ParseLine(line)
                  IN  [records |-> IF p.made THEN <<p.rec>> \o rest.records
                                   ELSE rest.records,
                       printed |-> rest.printed + (IF p.caught THEN 1 ELSE 0)]

\* row r placed in the rows rs, which are sorted by timestamp, after the rows
\* that are not later than it
RECURSIVE InsertRow(_, _)
InsertRow(r, rs) ==
    IF rs = <<>> THEN <<r>>
    ELSE IF r.timestamp < Head(rs).timestamp THEN <<r>> \o rs
    ELSE <<Head(rs)>> \o InsertRow(r, Tail(rs))

\* df.sort_values('timestamp')
RECURSIVE sort_values(_)
sort_values(rs) ==
    IF rs = <<>> THEN <<>>
    ELSE InsertRow(rs[Len(rs)], sort_values(SubSeq(rs, 1, Len(rs) - 1)))

\* parse_rwcount_output(output): None when no record was parsed, otherwise the
\* DataFrame of the records sorted by timestamp; nothing else is returned
parse_rwcount_output(output) ==
    LET p == ParseLines(output)
    IN  [obj |-> output,
         ret |-> IF p.records = <<>> THEN None ELSE DataFrame(sort_values(p.records)),
         raised |-> "",
         printed |-> p.printed]

----------------------------------------------------------------------------
(* LBNLAnalyzer.fetch_tcp_data *)

\* fetch_tcp_data(): out1 is the stdout of the rwfilter | rwstats command and
\* out2 that of the alternative rwfilter | rwuniq command, which runs only when
\* out1 is empty; fails says that subprocess.run raised.  The function has no
\* return statement but the "return None" of its except clause.
fetch_tcp_data(out1, out2, fails) ==
    [stdout |-> IF fails THEN <<>> ELSE IF out1 # <<>> THEN out1 ELSE out2,
     ret |-> None]

----------------------------------------------------------------------------
(* LBNLAnalyzer.analyze_tcp_traffic *)

\* a handler that lets the exception go on to the caller
ExceptHandlerReraise(e, done) == [ret |-> None, stages |-> done, escaped |-> e]

\* except Exception as e: print, traceback.print_exc(), return None
ExceptHandler(e, done) == [ret |-> None, stages |-> done, escaped |-> ""]

\* the try block of analyze_tcp_traffic on the local df: the value returned,
\* the stages completed and the exception that escaped the method
analyze_try(d) ==
    LET st == calculate_statistics(d)
    IN  IF st.raised # "" THEN ExceptHandler(st.raised, <<>>)
        ELSE LET c == classify_traffic(d)
             IN  IF c.raised # ""
                 THEN ExceptHandler(c.raised, <<"statistics">>)
                 ELSE LET a == detect_anomalies(c.ret)
                      IN  IF a.raised # ""
                          THEN ExceptHandler(a.raised, <<"statistics", "classification">>)
                          ELSE [ret |-> st.ret,
                                stages |-> <<"statistics", "classification", "anomalies",
                                             "visualization", "save">>,
                                escaped |-> ""]

\* bool(results) in "if results:"
Truthy(v) == v # None

----------------------------------------------------------------------------
(* VFDTClassifier *)

\* self.ranges as __init__ sets it
InitRanges == << <<0, 10>>, <<10, 100>>, <<100, 500>>, <<500, 1000>>, <<1000, Inf>> >>

\* the loop with the lower bound of a range excluded
RECURSIVE ClassifyLoopExclusiveLow(_, _, _, _)
ClassifyLoopExclusiveLow(data, rs, i, classes) ==
    IF i > Len(rs) THEN classes
    ELSE ClassifyLoopExclusiveLow(data, rs, i + 1,
            [j \in 1..Len(data) |->
                IF data[j] > rs[i][1] /\ data[j] < rs[i][2] THEN i - 1 ELSE classes[j]])

\* the loop of classify from the i-th range on (i counts from 1, the class
\* written is enumerate's index i - 1)
RECURSIVE ClassifyLoop(_, _, _, _)
ClassifyLoop(data, rs, i, classes) ==
    IF i > Len(rs) THEN classes
    ELSE ClassifyLoop(data, rs, i + 1,
            [j \in 1..Len(data) |->
                IF data[j] >= rs[i][1] /\ data[j] < rs[i][2] THEN i - 1 ELSE classes[j]])

\* VFDTClassifier.classify(data): classes starts as np.zeros(len(data))
classify(data, rs) ==
    [obj |-> data,
     ret |-> ndarray(ClassifyLoop(data.rows, rs, 1, [j \in 1..Len(data.rows) |-> 0])),
     raised |-> ""]

----------------------------------------------------------------------------
(* Inputs *)

\* packet counts around every boundary of the two tables and of the threshold
PacketValues == {0, 1, 600, 601, 1000, 1001, 6001, 60000, 60001}

\* the rows of a DataFrame with the packets column xs, in timestamp order
Rows(xs) == [i \in 1..Len(xs) |-> [timestamp |-> i, packets |-> xs[i]]]

\* the record set of the anomaly example: packets 500, 1000, 1001, 2000
ExampleInput == DataFrame(Rows(<<500, 1000, 1001, 2000>>))

\* non-empty record sets
DataFrames == {DataFrame(Rows(xs)) : xs \in SeqsOf(PacketValues, 1, MaxRecords)}

\* the record set with the packets column and no row
EmptyFrame == DataFrame(<<>>)

\* values around every boundary of VFDTClassifier's table
DataValues == {0, 9, 10, 99, 100, 499, 500, 999, 1000, 5000}

Arrays == {ndarray(vs) : vs \in SeqsOf(DataValues, 0, MaxData)}

\* the lines of a text: empty, comment, no '|', two good fields ("5" and
\* "2.7"), a bad packet count, a bad timestamp, three good fields, bad bytes
Lines ==
    { <<>>,
      <<Field("hash", 0)>>,
      <<Field("junk", 0)>>,
      <<Field("ts", 2), Field("num", 50)>>,
      <<Field("ts", 1), Field("num", 27)>>,
      <<Field("ts", 2), Field("junk", 0)>>,
      <<Field("junk", 0), Field("num", 50)>>,
      <<Field("ts", 1), Field("num", 60010), Field("num", 10000)>>,
      <<Field("ts", 3), Field("num", 50), Field("junk", 0)>> }

Texts == SeqsOf(Lines, 0, MaxLines)

----------------------------------------------------------------------------
(* State machine *)

Init ==
    /\ pc \in {"import", "main"}
    /\ op = ""
    /\ arg0 = None
    /\ arg = None
    /\ ret = None
    /\ raised = ""
    /\ printed = 0
    /\ ranges = InitRanges
    /\ stdout = <<>>
    /\ df = None
    /\ stages = <<>>
    /\ results = None
    /\ message = ""

\* what a call leaves behind: r is the record the method's operator gives
Called(name, input, r, nprinted) ==
    /\ pc' = "called"
    /\ op' = name
    /\ arg0' = input
    /\ arg' = r.obj
    /\ ret' = r.ret
    /\ raised' = r.raised
    /\ printed' = nprinted
    /\ UNCHANGED <<ranges, stdout, df, stages, results, message>>

\* a caller calls analyzer.classify_traffic(d)
CallClassifyTraffic ==
    /\ pc = "import"
    /\ \E d \in DataFrames \cup {None} :
          Called("classify_traffic", d, classify_traffic(d), 0)

\* a caller calls analyzer.detect_anomalies(d)
CallDetectAnomalies ==
    /\ pc = "import"
    /\ \E d \in DataFrames \cup {EmptyFrame, ExampleInput, None} :
          Called("detect_anomalies", d, detect_anomalies(d), 0)

\* a caller calls analyzer.calculate_statistics(d)
CallCalculateStatistics ==
    /\ pc = "import"
    /\ \E d \in DataFrames \cup {None} :
          Called("calculate_statistics", d, calculate_statistics(d), 0)

\* a caller calls analyzer.parse_rwcount_output(output)
CallParseRwcountOutput ==
    /\ pc = "import"
    /\ \E output \in Texts :
          LET r == parse_rwcount_output(output)
          IN  Called("parse_rwcount_output", output, r, r.printed)

\* a caller calls VFDTClassifier().classify(data)
CallClassify ==
    /\ pc = "import"
    /\ \E data \in Arrays :
          Called("classify", data, classify(data, ranges), 0)

\* the caller goes on to its next call; nothing of the last one is kept
NextCall ==
    /\ pc = "called"
    /\ pc' = "import"
    /\ op' = ""
    /\ arg0' = None
    /\ arg' = None
    /\ ret' = None
    /\ raised' = ""
    /\ printed' = 0
    /\ UNCHANGED <<ranges, stdout, df, stages, results, message>>

\* analyze_tcp_traffic, line 234: df = self.fetch_tcp_data()
Fetch ==
    /\ pc = "main"
    /\ \E out1 \in Texts, fails \in BOOLEAN :
         \E out2 \in (IF out1 = <<>> /\ ~fails THEN Texts ELSE {<<>>}) :
            LET r == fetch_tcp_data(out1, out2, fails)
            IN  /\ stdout' = r.stdout
                /\ df' = r.ret
    /\ pc' = "fetched"
    /\ UNCHANGED <<op, arg0, arg, ret, raised, printed, ranges, stages, results, message>>

\* analyze_tcp_traffic, lines 236-252, and the assignment of its result to
\* results in __main__
Analyze ==
    /\ pc = "fetched"
    /\ LET r == analyze_try(df)
       IN  /\ results' = r.ret
           /\ stages' = r.stages
           /\ raised' = r.escaped
    /\ pc' = "returned"
    /\ UNCHANGED <<op, arg0, arg, ret, printed, ranges, stdout, df, message>>

\* __main__, lines 259-265
Report ==
    /\ pc = "returned"
    /\ raised = ""
    /\ message' = IF Truthy(results) THEN "Analysis complete!" ELSE "Analysis failed."
    /\ pc' = "exit"
    /\ UNCHANGED <<op, arg0, arg, ret, raised, printed, ranges, stdout, df, stages, results>>

Next ==
    \/ CallClassifyTraffic
    \/ CallDetectAnomalies
    \/ CallCalculateStatistics
    \/ CallParseRwcountOutput
    \/ CallClassify
    \/ NextCall
    \/ Fetch
    \/ Analyze
    \/ Report

Spec == Init /\ [][Next]_vars

----------------------------------------------------------------------------
(* Properties *)

\* the elements of a sequence
Range(s) == {s[i] : i \in 1..Len(s)}

\* the index (from 0) of the half-open range [lower, next lower) of
\* TrafficRanges that holds the non-negative x
HalfOpenIndex(x) == Cardinality({i \in 1..Len(TrafficRanges) : TrafficRanges[i][1] <= x}) - 1

\* the index (from 0) of a traffic_class label, -1 for a missing label
LabelIndex(l) == IF l \in Range(labels) THEN (CHOOSE i \in 1..Len(labels) : labels[i] = l) - 1 ELSE -1

\* the last call was classify_traffic on a record set
ClassifiedTraffic == op = "classify_traffic" /\ arg0 # None

\* classify_traffic was called on a record set and returned
TrafficReturned == ClassifiedTraffic /\ raised = ""

\* C1: classify_traffic gives every record with a non-negative packets count
\* the traffic_class label of the half-open range [lower, next lower) that
\* holds it: 0 is Low, 601 Medium, 6001 High, 60001 Very High; no record is
\* left without a label.
C1_TrafficClassHalfOpen ==
    TrafficReturned =>
        \A i \in 1..Len(arg0.rows) :
            arg0.rows[i].packets >= 0 =>
                /\ "traffic_class" \in DOMAIN arg.rows[i]
                /\ arg.rows[i].traffic_class = labels[HalfOpenIndex(arg0.rows[i].packets) + 1]

\* the class the table of VFDTClassifier gives v
ExpectedClass(v) ==
    IF v < 10 THEN 0 ELSE IF v < 100 THEN 1 ELSE IF v < 500 THEN 2
    ELSE IF v < 1000 THEN 3 ELSE 4

\* C2: VFDTClassifier.classify returns one class per input value, in input
\* order, the class of a non-negative v being the index of the one range
\* (low, high) of self.ranges with low <= v < high: 0 for [0,10), 1 for
\* [10,100), 2 for [100,500), 3 for [500,1000), 4 for [1000,inf).
C2_ClassifyRangeIndex ==
    op = "classify" =>
        /\ raised = ""
        /\ Len(ret.rows) = Len(arg0.rows)
        /\ \A j \in 1..Len(arg0.rows) :
              LET v == arg0.rows[j]
                  holding == {i \in 1..Len(ranges) : ranges[i][1] <= v /\ v < ranges[i][2]}
              IN  /\ holding = {ret.rows[j] + 1}
                  /\ ret.rows[j] = ExpectedClass(v)

\* C2 witness: classify was called on [1000, 9] and returned [4, 0]
C2_Witness ==
    /\ op = "classify"
    /\ arg0.rows = <<1000, 9>>
    /\ ret.rows = <<4, 0>>

\* C3: in both classifiers the range index is monotonic: for values a <= b
\* the index given to a is defined and not greater than the index given to b.
C3_Monotonic ==
    /\ op = "classify" =>
          \A j, k \in 1..Len(arg0.rows) :
              arg0.rows[j] <= arg0.rows[k] => ret.rows[j] <= ret.rows[k]
    /\ TrafficReturned =>
          \A j, k \in 1..Len(arg0.rows) :
              arg0.rows[j].packets <= arg0.rows[k].packets =>
                  /\ LabelIndex(arg.rows[j].traffic_class) >= 0
                  /\ LabelIndex(arg.rows[j].traffic_class)
                        <= LabelIndex(arg.rows[k].traffic_class)

\* the last call was detect_anomalies on a record set
DetectedAnomalies == op = "detect_anomalies" /\ arg0 # None

RECURSIVE IsSubsequence(_, _)
IsSubsequence(ys, xs) ==
    IF ys = <<>> THEN TRUE
    ELSE IF xs = <<>> THEN FALSE
    ELSE IF Head(ys) = Head(xs) THEN IsSubsequence(Tail(ys), Tail(xs))
    ELSE IsSubsequence(ys, Tail(xs))

DataLine(line) == line # <<>> /\ line[1].k # "hash"

\* a line that parses: a timestamp, a packet count and, when there is a third
\* field, a byte count
WellFormed(line) ==
    /\ DataLine(line)
    /\ Len(line) >= 2
    /\ line[1].k = "ts"
    /\ line[2].k = "num"
    /\ Len(line) > 2 => line[3].k = "num"

\* a line that cannot be parsed
Malformed(line) == DataLine(line) /\ ~WellFormed(line)

\* how many lines of the text parse
CountWellFormed(text) == Cardinality({i \in 1..Len(text) : WellFormed(text[i])})

\* how many lines of the text cannot be parsed
CountMalformed(text) == Cardinality({i \in 1..Len(text) : Malformed(text[i])})

\* C6: parse_rwcount_output never fails on a malformed line; the result holds
\* exactly one record for each non-comment line that parses, and the number
\* of skipped lines is surfaced to the caller (here: by the one channel the
\* method has besides its return value, one printed message per skipped line).
C6_SkippedLinesSurfaced ==
    op = "parse_rwcount_output" =>
        /\ raised = ""
        /\ Len(ret.rows) = CountWellFormed(arg0)
        /\ printed = CountMalformed(arg0)

\* analyze_tcp_traffic has returned (or has been left by an exception)
Analyzed == pc \in {"returned", "exit"}

C8_IdenticalValuesSameBucket ==
    (ClassifiedTraffic /\ \A i, j \in 1..Len(arg0.rows) :
                              arg0.rows[i].packets = arg0.rows[j].packets) =>
        /\ raised = ""
        /\ \A i \in 1..Len(arg.rows) :
              /\ "vfdt_class" \in DOMAIN arg.rows[i]
              /\ arg.rows[i].vfdt_class \in Range(qlabels)
              /\ arg.rows[i].vfdt_class = arg.rows[1].vfdt_class

\* C9: after classify_traffic(df) or VFDTClassifier.classify(data) returns,
\* the caller's input is what it was before the call and the range table is
\* unchanged.
C9_NoSideEffects ==
    ((op = "classify_traffic" \/ op = "classify") /\ raised = "") =>
        /\ arg = arg0
        /\ ranges = InitRanges

\* the text is not empty and each of its lines parses
WellFormedOutput(text) == text # <<>> /\ \A i \in 1..Len(text) : WellFormed(text[i])

\* C10: whenever the external command produces non-empty, well-formed
\* output, analyze_tcp_traffic completes successfully: statistics,
\* classification, anomaly detection, visualization and result saving run in
\* that order and the statistics (not None) are returned.
C10_WellFormedOutputSucceeds ==
    (Analyzed /\ WellFormedOutput(stdout)) =>
        /\ results # None
        /\ stages = <<"statistics", "classification", "anomalies", "visualization", "save">>

====
